---- MODULE Spec2Model ----
(***************************************************************************)
(* The per-directory symlinks file of geesefs (core/symlinks.go): the      *)
(* document, the primitive store operations and the retry/merge engine,    *)
(* run by several writers against one backing object of a storage backend  *)
(* with conditional writes.                                                *)
(***************************************************************************)
EXTENDS Integers, Sequences, FiniteSets, TLC

\* ------------------------------------------------------------------ bounds
NumWriters == 2
MaxBudget == 3
LongBudget == 7
MaxClock == 1
MaxOps == 2
MaxMixedOps == 1
MaxDocOps == 2
MaxKeyLen == 3
NumReaders == 2
MaxLoads == 2
MaxReads == 2

\* ------------------------------------------------------- program constants
initialBackoff == 50
maxBackoff == 2000
backoffFactor == 2
SchemaVersion == 1

Writers == 1..NumWriters
Names == {"link1", "link2"}
Targets == {"../target1", "../target2"}
Budgets == (-1)..MaxBudget
Times == 0..MaxClock

VARIABLES
    obj,          \* the backing object of the directory: [exists, data, etag]
    nextETag,     \* the entity tag the backend gives its next successful put
    backend,      \* which backend serves the calls
    initObj,      \* the backing object as it was before any call
    scope,        \* the callers of this run: who calls, with which budgets and merges
    now,          \* the wall clock, in seconds
    pc,           \* each writer's position in SaveSymlinksFileWithRetry
    change,       \* each writer's logical change: [kind, name, target]
    mergeKind,    \* each writer's merge function
    maxRetries,   \* each writer's retry budget
    expectedETag, \* the token each writer's call was given
    currentData,  \* SaveSymlinksFileWithRetry's currentData
    currentETag,  \* SaveSymlinksFileWithRetry's currentETag
    attempt,      \* the loop counter of SaveSymlinksFileWithRetry
    backoff,      \* the current backoff, in milliseconds
    result,       \* what the call returned: [etag, err]
    log,          \* what each call did, in order
    cache,        \* each writer's SymlinksFileCache: [data, etag]
    prim,         \* the last direct call of a store operation, with its outcome
    mem,          \* a document in memory and the last calls made on it
    symlinksCache, \* one directory's SymlinksFileCache: its lock and its three fields
    cachePc       \* the threads that use the cache: where each is and what it has read

vars == <<obj, nextETag, backend, initObj, scope, now, pc, change, mergeKind, maxRetries,
          expectedETag, currentData, currentETag, attempt, backoff, result, log, cache, prim,
          mem, symlinksCache, cachePc>>

\* The state of the store and of its callers.
storeVars == <<obj, nextETag, backend, initObj, scope, now, pc, change, mergeKind,
               maxRetries, expectedETag, currentData, currentETag, attempt, backoff,
               result, log, cache, prim>>

\* ------------------------------------------------------------------ errors
\* An error is the sequence of the fragments of its message; nil is <<>>.
ErrNil == <<>>
ErrPreconditionFailed == <<"PreconditionFailed">>
ErrNoSuchKey == <<"NoSuchKey">>
ErrNetwork == <<"network error: connection refused">>
ErrConnReset == <<"read tcp 10.0.0.5:", "412", "34: connection reset by peer">>
ErrDialTimeout == <<"dial tcp 10.0.0.7:", "404", "43: i/o timeout">>

Contains(err, s) == \E i \in DOMAIN err : err[i] = s

isPreconditionFailed(err) ==
    /\ err # ErrNil
    /\ \/ Contains(err, "PreconditionFailed")
       \/ Contains(err, "412")
       \/ Contains(err, "Precondition Failed")
       \/ Contains(err, "conditional request failed")

isNotExist(err) ==
    /\ err # ErrNil
    /\ \/ Contains(err, "NoSuchKey")
       \/ Contains(err, "NotFound")
       \/ Contains(err, "404")
       \/ Contains(err, "does not exist")
       \/ Contains(err, "no such file or directory")

\* What a call returns as its error: the wrapping message, the budget it names
\* and the error it wraps (fmt.Errorf with %w); a backend error returned
\* unchanged has no wrapping.
NoError == [wrap |-> "", budget |-> 0, cause |-> ErrNil]
Propagated(err) == [wrap |-> "", budget |-> 0, cause |-> err]
RetriesExceeded(n, err) ==
    [wrap |-> "symlinks file conflict: max retries exceeded", budget |-> n, cause |-> err]
ReloadFailed(err) ==
    [wrap |-> "failed to reload symlinks file during retry", budget |-> 0, cause |-> err]
MergeFailed(err) == [wrap |-> "merge function failed", budget |-> 0, cause |-> err]
Unexpected ==
    [wrap |-> "symlinks file save failed unexpectedly", budget |-> 0, cause |-> ErrNil]
ErrMerge == <<"merge conflict: cannot resolve">>

\* ---------------------------------------------------------------- document
NoSymlinks == [n \in {} |-> [Target |-> "", Mtime |-> 0]]

NewSymlinksFileData == [Version |-> SchemaVersion, Symlinks |-> NoSymlinks]

\* An add that starts from an empty map.
AddSymlink_Alone(s, name, target, t) ==
    [s EXCEPT !.Symlinks = [n \in {name} |-> [Target |-> target, Mtime |-> t]]]

AddSymlink(s, name, target, t) ==
    [s EXCEPT !.Symlinks =
        [n \in (DOMAIN s.Symlinks) \cup {name} |->
            IF n = name THEN [Target |-> target, Mtime |-> t] ELSE s.Symlinks[n]]]

\* A removal that drops the last entry when the name is missing.
RemoveSymlink_DropsOther(s, name) ==
    IF name \in DOMAIN s.Symlinks
    THEN [s EXCEPT !.Symlinks = [n \in (DOMAIN s.Symlinks) \ {name} |-> s.Symlinks[n]]]
    ELSE [s EXCEPT !.Symlinks = NoSymlinks]

RemoveSymlink(s, name) ==
    [s EXCEPT !.Symlinks = [n \in (DOMAIN s.Symlinks) \ {name} |-> s.Symlinks[n]]]

GetSymlink(s, name) ==
    IF name \in DOMAIN s.Symlinks
    THEN [target |-> s.Symlinks[name].Target, ok |-> TRUE]
    ELSE [target |-> "", ok |-> FALSE]

HasSymlink(s, name) == name \in DOMAIN s.Symlinks

IsEmpty(s) == Cardinality(DOMAIN s.Symlinks) = 0

\* The stored bytes: empty, not JSON at all, or a JSON object with a version
\* and a symlinks member that is an object, or is null or missing (null).
EmptyBytes == [form |-> "empty", version |-> 0, null |-> TRUE, symlinks |-> NoSymlinks]

\* Go strings are byte strings. A string that is not valid UTF-8 is written
\* here with the offending byte between angle brackets; the JSON encoder puts
\* the replacement character U+FFFD in the place of each such byte.
InvalidUTF8 == "caf<E9>" :> "caf<U+FFFD>"

\* The JSON encoder writing every string as it is.
ToValidUTF8_Verbatim(str) == str

\* A string as the JSON encoder writes it.
ToValidUTF8(str) == IF str \in DOMAIN InvalidUTF8 THEN InvalidUTF8[str] ELSE str

\* The names of a document that the encoder writes as the member name key.
WrittenAs(s, key) == {n \in DOMAIN s.Symlinks : ToValidUTF8(n) = key}

Serialize(s) ==
    [form |-> "json", version |-> s.Version, null |-> FALSE,
     symlinks |-> [key \in {ToValidUTF8(n) : n \in DOMAIN s.Symlinks} |->
                     LET n == CHOOSE m \in WrittenAs(s, key) : TRUE
                     IN  [target |-> ToValidUTF8(s.Symlinks[n].Target),
                          mtime |-> s.Symlinks[n].Mtime]]]

ErrSyntax == <<"invalid character 'o' in literal null (expecting 'u')">>

\* json.Unmarshal into a zero SymlinksFileData: [Version, Symlinks, nilmap, err];
\* nilmap says that the Symlinks map was left nil.
Unmarshal(bytes) ==
    IF bytes.form # "json"
    THEN [Version |-> 0, Symlinks |-> NoSymlinks, nilmap |-> TRUE, err |-> ErrSyntax]
    ELSE [Version |-> bytes.version,
          Symlinks |-> IF bytes.null THEN NoSymlinks
                       ELSE [n \in DOMAIN bytes.symlinks |->
                               [Target |-> bytes.symlinks[n].target,
                                Mtime |-> bytes.symlinks[n].mtime]],
          nilmap |-> bytes.null, err |-> ErrNil]

\* The decoded document returned with its map as the decoder left it.
ParseSymlinksFile_NoNormalize(bytes) ==
    IF bytes.form = "empty"
    THEN [data |-> NewSymlinksFileData, nil |-> FALSE, nilmap |-> FALSE, err |-> ErrNil]
    ELSE LET decoded == Unmarshal(bytes)
         IN  IF decoded.err # ErrNil
             THEN [data |-> NewSymlinksFileData, nil |-> TRUE, nilmap |-> TRUE,
                   err |-> decoded.err]
             ELSE [data |-> [Version |-> decoded.Version, Symlinks |-> decoded.Symlinks],
                   nil |-> FALSE, nilmap |-> decoded.nilmap, err |-> ErrNil]

\* [data, nil, nilmap, err]; nil: no document is returned, nilmap: the returned
\* document's map is nil.
ParseSymlinksFile(bytes) ==
    IF bytes.form = "empty"
    THEN [data |-> NewSymlinksFileData, nil |-> FALSE, nilmap |-> FALSE, err |-> ErrNil]
    ELSE LET decoded == Unmarshal(bytes)
         IN  IF decoded.err # ErrNil
             THEN [data |-> NewSymlinksFileData, nil |-> TRUE, nilmap |-> TRUE,
                   err |-> decoded.err]
             ELSE [data |-> [Version |-> decoded.Version, Symlinks |-> decoded.Symlinks],
                   nil |-> FALSE, nilmap |-> FALSE, err |-> ErrNil]

\* strings.HasSuffix(str, "/"), a string being the sequence of its characters.
HasSuffixSlash(str) == Len(str) > 0 /\ str[Len(str)] = "/"

\* The separator appended whether or not the key ends with one.
getSymlinksFilePath_AlwaysAppend(dirKey, symlinksFileName) ==
    IF dirKey = <<>> THEN symlinksFileName
    ELSE dirKey \o <<"/">> \o symlinksFileName

getSymlinksFilePath(dirKey, symlinksFileName) ==
    IF dirKey = <<>> THEN symlinksFileName
    ELSE IF ~HasSuffixSlash(dirKey) THEN dirKey \o <<"/">> \o symlinksFileName
    ELSE dirKey \o symlinksFileName

\* ----------------------------------------------------------------- backend
\* One key of the storage backend. A conditional put is atomic: it replaces the
\* object and gives it a fresh entity tag, or fails and changes nothing.
Absent == [exists |-> FALSE, data |-> EmptyBytes, etag |-> 0]

BackendKinds == {"mock", "alwaysConflict", "error", "flaky"}

PutFaults(kind) == IF kind = "flaky" THEN {ErrNetwork, ErrConnReset} ELSE {}
GetFaults(kind) == IF kind = "flaky" THEN {ErrNetwork, ErrDialTimeout} ELSE {}
DeleteFaults(kind) == IF kind = "flaky" THEN {ErrNetwork, ErrDialTimeout} ELSE {}

\* ifMatch = 0 and ifNoneMatch = FALSE stand for the nil pointers.
PutPrecondition(o, ifMatch, ifNoneMatch) ==
    /\ ifNoneMatch => ~o.exists
    /\ ifMatch # 0 => (o.exists /\ o.etag = ifMatch)

\* The outcomes of a conditional put: [obj, next, etag, err]
ConditionalPut(kind, o, ne, body, ifMatch, ifNoneMatch) ==
    {IF PutPrecondition(o, ifMatch, ifNoneMatch)
     THEN [obj |-> [exists |-> TRUE, data |-> body, etag |-> ne],
           next |-> ne + 1, etag |-> ne, err |-> ErrNil]
     ELSE [obj |-> o, next |-> ne, etag |-> 0, err |-> ErrPreconditionFailed]}
    \cup {[obj |-> o, next |-> ne, etag |-> 0, err |-> e] : e \in PutFaults(kind)}

\* The outcomes of PutBlob: the backend itself, or one of the two that answer
\* every put with the same error.
PutBlob(kind, o, ne, body, ifMatch, ifNoneMatch) ==
    IF kind = "alwaysConflict"
    THEN {[obj |-> o, next |-> ne, etag |-> 0, err |-> ErrPreconditionFailed]}
    ELSE IF kind = "error"
    THEN {[obj |-> o, next |-> ne, etag |-> 0, err |-> ErrNetwork]}
    ELSE ConditionalPut(kind, o, ne, body, ifMatch, ifNoneMatch)

\* The outcomes of GetBlob: [body, etag, err]
GetBlob(kind, o) ==
    {IF o.exists THEN [body |-> o.data, etag |-> o.etag, err |-> ErrNil]
     ELSE [body |-> EmptyBytes, etag |-> 0, err |-> ErrNoSuchKey]}
    \cup {[body |-> EmptyBytes, etag |-> 0, err |-> e] : e \in GetFaults(kind)}

\* The outcomes of DeleteBlob: [obj, err]. Deleting a missing key succeeds or
\* reports that the key does not exist, as the backend pleases.
DeleteBlob(kind, o) ==
    (IF o.exists THEN {[obj |-> Absent, err |-> ErrNil]}
     ELSE {[obj |-> o, err |-> ErrNil], [obj |-> o, err |-> ErrNoSuchKey]})
    \cup {[obj |-> o, err |-> e] : e \in DeleteFaults(kind)}

\* ------------------------------------------------- primitive store operations
\* A request to the backend, as a store operation sends it.
Request(call, cond, tok) == [call |-> call, cond |-> cond, tok |-> tok]

\* LoadSymlinksFile returning the backend's not-exist error to its caller.
LoadResult_NotExistIsError(r) ==
    IF r.err # ErrNil
    THEN [data |-> NewSymlinksFileData, nil |-> TRUE, etag |-> 0, err |-> r.err]
    ELSE [data |-> ParseSymlinksFile(r.body).data, nil |-> FALSE, etag |-> r.etag,
          err |-> ErrNil]

\* LoadSymlinksFile returning the document without the object's entity tag.
LoadResult_DropsETag(r) ==
    IF r.err # ErrNil
    THEN IF isNotExist(r.err)
         THEN [data |-> NewSymlinksFileData, nil |-> FALSE, etag |-> 0, err |-> ErrNil]
         ELSE [data |-> NewSymlinksFileData, nil |-> TRUE, etag |-> 0, err |-> r.err]
    ELSE [data |-> ParseSymlinksFile(r.body).data, nil |-> FALSE, etag |-> 0, err |-> ErrNil]

\* LoadSymlinksFile on what GetBlob returned: [data, nil, etag, err], nil saying
\* that no document is returned (data is then of no account).
LoadResult(r) ==
    IF r.err # ErrNil
    THEN IF isNotExist(r.err)
         THEN [data |-> NewSymlinksFileData, nil |-> FALSE, etag |-> 0, err |-> ErrNil]
         ELSE [data |-> NewSymlinksFileData, nil |-> TRUE, etag |-> 0, err |-> r.err]
    ELSE LET parsed == ParseSymlinksFile(r.body)
         IN  IF parsed.err # ErrNil
             THEN [data |-> NewSymlinksFileData, nil |-> TRUE, etag |-> 0, err |-> parsed.err]
             ELSE [data |-> parsed.data, nil |-> FALSE, etag |-> r.etag, err |-> ErrNil]

\* The outcomes of LoadSymlinksFile: [data, nil, etag, err]
LoadSymlinksFile(kind, o) == {LoadResult(r) : r \in GetBlob(kind, o)}

\* SaveSymlinksFile deleting the object: [obj, next, etag, err, calls, answer],
\* calls being the requests sent to the backend and answer its error.
SaveDelete(kind, o, ne) ==
    {[obj |-> d.obj, next |-> ne, etag |-> 0,
      err |-> IF d.err # ErrNil /\ ~isNotExist(d.err) THEN d.err ELSE ErrNil,
      calls |-> <<Request("delete", "none", 0)>>, answer |-> d.err] :
        d \in DeleteBlob(kind, o)}

\* The put of a new file sent without If-None-Match, and the put of an update
\* sent without If-Match.
SavePut_NoCreateGuard(kind, o, ne, data, expected) ==
    IF expected = 0
    THEN {[obj |-> r.obj, next |-> r.next, etag |-> r.etag, err |-> r.err,
           calls |-> <<Request("put", "ifNoneMatch", 0)>>, answer |-> r.err] :
             r \in PutBlob(kind, o, ne, Serialize(data), 0, FALSE)}
    ELSE {[obj |-> r.obj, next |-> r.next, etag |-> r.etag, err |-> r.err,
           calls |-> <<Request("put", "ifMatch", expected)>>, answer |-> r.err] :
             r \in PutBlob(kind, o, ne, Serialize(data), expected, FALSE)}
SavePut_NoMatchGuard(kind, o, ne, data, expected) ==
    IF expected = 0
    THEN {[obj |-> r.obj, next |-> r.next, etag |-> r.etag, err |-> r.err,
           calls |-> <<Request("put", "ifNoneMatch", 0)>>, answer |-> r.err] :
             r \in PutBlob(kind, o, ne, Serialize(data), 0, TRUE)}
    ELSE {[obj |-> r.obj, next |-> r.next, etag |-> r.etag, err |-> r.err,
           calls |-> <<Request("put", "ifMatch", expected)>>, answer |-> r.err] :
             r \in PutBlob(kind, o, ne, Serialize(data), 0, FALSE)}

\* SaveSymlinksFile putting the document, on condition.
SavePut(kind, o, ne, data, expected) ==
    IF expected = 0
    THEN {[obj |-> r.obj, next |-> r.next, etag |-> r.etag, err |-> r.err,
           calls |-> <<Request("put", "ifNoneMatch", 0)>>, answer |-> r.err] :
             r \in PutBlob(kind, o, ne, Serialize(data), 0, TRUE)}
    ELSE {[obj |-> r.obj, next |-> r.next, etag |-> r.etag, err |-> r.err,
           calls |-> <<Request("put", "ifMatch", expected)>>, answer |-> r.err] :
             r \in PutBlob(kind, o, ne, Serialize(data), expected, FALSE)}

\* SaveSymlinksFile without its first return: an empty document is deleted
\* whatever the token.
SaveSymlinksFile_NoSkip(kind, o, ne, data, expected) ==
    IF IsEmpty(data) THEN SaveDelete(kind, o, ne)
    ELSE SavePut(kind, o, ne, data, expected)

\* SaveSymlinksFile without either of its returns for an empty document: every
\* document is put.
SaveSymlinksFile_NoEmptyCheck(kind, o, ne, data, expected) ==
    SavePut(kind, o, ne, data, expected)

\* SaveSymlinksFile with the test of its second return inverted: the document
\* that has entries is the one deleted.
SaveSymlinksFile_DeleteNonEmpty(kind, o, ne, data, expected) ==
    IF IsEmpty(data) /\ expected = 0
    THEN {[obj |-> o, next |-> ne, etag |-> 0, err |-> ErrNil, calls |-> <<>>,
           answer |-> ErrNil]}
    ELSE IF ~IsEmpty(data) THEN SaveDelete(kind, o, ne)
    ELSE SavePut(kind, o, ne, data, expected)

\* SaveSymlinksFile replacing the object in two steps: it deletes the object,
\* then puts the document on condition.
SaveSymlinksFile_DeleteFirst(kind, o, ne, data, expected) ==
    IF IsEmpty(data) /\ expected = 0
    THEN {[obj |-> o, next |-> ne, etag |-> 0, err |-> ErrNil, calls |-> <<>>,
           answer |-> ErrNil]}
    ELSE IF IsEmpty(data) THEN SaveDelete(kind, o, ne)
    ELSE UNION {SavePut(kind, d.obj, ne, data, expected) : d \in DeleteBlob(kind, o)}

\* SaveSymlinksFile without its second return: an empty document that comes
\* with a token is put like any other.
SaveSymlinksFile_EmptyIsPut(kind, o, ne, data, expected) ==
    IF IsEmpty(data) /\ expected = 0
    THEN {[obj |-> o, next |-> ne, etag |-> 0, err |-> ErrNil, calls |-> <<>>,
           answer |-> ErrNil]}
    ELSE SavePut(kind, o, ne, data, expected)

\* The outcomes of SaveSymlinksFile: [obj, next, etag, err, calls, answer]
SaveSymlinksFile(kind, o, ne, data, expected) ==
    IF IsEmpty(data) /\ expected = 0
    THEN {[obj |-> o, next |-> ne, etag |-> 0, err |-> ErrNil, calls |-> <<>>,
           answer |-> ErrNil]}
    ELSE IF IsEmpty(data) THEN SaveDelete(kind, o, ne)
    ELSE SavePut(kind, o, ne, data, expected)

\* The outcomes of DeleteSymlinksFile: [obj, err]
DeleteSymlinksFile(kind, o) ==
    {[obj |-> d.obj, err |-> IF d.err # ErrNil /\ ~isNotExist(d.err) THEN d.err ELSE ErrNil] :
        d \in DeleteBlob(kind, o)}

\* The outcomes of a get that carries the cached token: the backend reports the
\* object unchanged when it exists with that token: [body, etag, err, unchanged]
GetBlobIfChanged(kind, o, cachedETag) ==
    {IF g.err = ErrNil /\ cachedETag # 0 /\ g.etag = cachedETag
     THEN [body |-> EmptyBytes, etag |-> g.etag, err |-> ErrNil, unchanged |-> TRUE]
     ELSE [body |-> g.body, etag |-> g.etag, err |-> g.err, unchanged |-> FALSE] :
        g \in GetBlob(kind, o)}

\* LoadSymlinksFileConditional parsing the object although it is unchanged, and
\* keeping the cached token although the object is gone.
LoadConditionalResult_NoShortCircuit(r, cachedETag) ==
    IF r.unchanged
    THEN [data |-> NewSymlinksFileData, nil |-> FALSE, etag |-> r.etag, err |-> ErrNil]
    ELSE LoadResult([body |-> r.body, etag |-> r.etag, err |-> r.err])
LoadConditionalResult_StaleCacheWins(r, cachedETag) ==
    IF r.unchanged \/ (isNotExist(r.err) /\ cachedETag # 0)
    THEN [data |-> NewSymlinksFileData, nil |-> TRUE, etag |-> cachedETag, err |-> ErrNil]
    ELSE LoadResult([body |-> r.body, etag |-> r.etag, err |-> r.err])

\* LoadSymlinksFileConditional on what the backend returned: [data, nil, etag, err]
LoadConditionalResult(r, cachedETag) ==
    IF r.unchanged
    THEN [data |-> NewSymlinksFileData, nil |-> TRUE, etag |-> cachedETag, err |-> ErrNil]
    ELSE LoadResult([body |-> r.body, etag |-> r.etag, err |-> r.err])

\* ------------------------------------------------------ retry/merge engine
Changes ==
    [kind : {"add"}, name : Names, target : Targets]
    \cup [kind : {"remove"}, name : Names, target : {""}]

NoChange == [kind |-> "none", name |-> "", target |-> ""]

\* The caller's logical change applied to a document.
Apply(chg, s, t) ==
    IF chg.kind = "add" THEN AddSymlink(s, chg.name, chg.target, t)
    ELSE RemoveSymlink(s, chg.name)

MergeKinds == {"reapply", "fail"}

\* The caller's merge function: [data, err]
mergeFn(kind, chg, cloudData, t) ==
    IF kind = "fail" THEN [data |-> NewSymlinksFileData, err |-> ErrMerge]
    ELSE [data |-> Apply(chg, cloudData, t), err |-> ErrNil]

\* The entries of a call's log, one for each step of the loop: the save (with
\* the request it sent and the backend's own error, the token it was given,
\* its document, and the object and its tag before and after), the sleep, the reload
\* (with the document it returned), the merge (with the document it was given
\* and the one it returned).
Saved(r, held, data, o) ==
    [ev |-> "save",
     call |-> IF r.calls = <<>> THEN "none" ELSE r.calls[1].call,
     cond |-> IF r.calls = <<>> THEN "none" ELSE r.calls[1].cond,
     tok |-> IF r.calls = <<>> THEN 0 ELSE r.calls[1].tok,
     err |-> r.err, dur |-> 0, was |-> o.etag, is |-> r.obj.etag, held |-> held,
     empty |-> IsEmpty(data), answer |-> r.answer, doc |-> data, in |-> NewSymlinksFileData,
     prior |-> o, post |-> r.obj]
Slept(d) ==
    [ev |-> "sleep", call |-> "none", cond |-> "none", tok |-> 0, err |-> ErrNil,
     dur |-> d, was |-> 0, is |-> 0, held |-> 0, empty |-> FALSE, answer |-> ErrNil,
     doc |-> NewSymlinksFileData, in |-> NewSymlinksFileData,
     prior |-> Absent, post |-> Absent]
Reloaded(l, was, answer) ==
    [ev |-> "reload", call |-> "get", cond |-> "none", tok |-> l.etag, err |-> l.err,
     dur |-> 0, was |-> was, is |-> was, held |-> 0, empty |-> IsEmpty(l.data),
     answer |-> answer, doc |-> l.data, in |-> NewSymlinksFileData,
     prior |-> Absent, post |-> Absent]
Merged(m, input) ==
    [ev |-> "merge", call |-> "none", cond |-> "none", tok |-> 0, err |-> m.err,
     dur |-> 0, was |-> 0, is |-> 0, held |-> 0, empty |-> IsEmpty(m.data),
     answer |-> ErrNil, doc |-> m.data, in |-> input, prior |-> Absent, post |-> Absent]

\* The budget check off by one, and with a zero budget read as no limit.
RetryBudgetExhausted_Late(a, n) == a > n
RetryBudgetExhausted_ZeroUnlimited(a, n) == n > 0 /\ a >= n
\* The budget taken for the number of attempts.
RetryBudgetExhausted_Early(a, n) == a + 1 >= n

RetryBudgetExhausted(a, n) == a >= n

\* What the loop does with the error of a save.
AfterSave(err, a, n) ==
    IF err = ErrNil THEN "success"
    ELSE IF ~isPreconditionFailed(err) THEN "fail"
    ELSE IF RetryBudgetExhausted(a, n) THEN "exceeded"
    ELSE "retry"

\* What the loop does with the error of the reload.
AfterReload(loadErr) ==
    IF loadErr = ErrNil THEN "merge"
    ELSE IF isNotExist(loadErr) THEN "empty"
    ELSE "fail"

\* The merge function's error ignored.
AfterMerge_Ignored(mergeErr) == "next"

\* What the loop does with the error of the merge function.
AfterMerge(mergeErr) == IF mergeErr # ErrNil THEN "fail" ELSE "next"

\* The delay doubled without the cap.
NextBackoff_NoCap(b) == b * backoffFactor

NextBackoff(b) ==
    IF b * backoffFactor > maxBackoff THEN maxBackoff ELSE b * backoffFactor

\* The next attempt made with the token, or with the document, of the last one.
NextAttemptETag_Stale(cloudETag, held) == held
NextAttemptData_Own(mergedData, held) == held

\* The merge function given the caller's own document.
MergeInput_Own(cloudData, held) == held

\* The document handed to the merge function.
MergeInput(cloudData, held) == cloudData

\* The token and the document of the next attempt.
NextAttemptETag(cloudETag, held) == cloudETag
NextAttemptData(mergedData, held) == mergedData

Return(w, etag, err) ==
    /\ pc' = [pc EXCEPT ![w] = "done"]
    /\ result' = [result EXCEPT ![w] = [etag |-> etag, err |-> err]]

\* The caller builds its document and enters SaveSymlinksFileWithRetry: from
\* the document it has loaded, with the token of that load, or from a new
\* document with the empty token.
Begin(w) ==
    /\ pc[w] = "idle"
    /\ w \in scope.callers
    /\ \E chg \in scope.changes, mk \in scope.merges, n \in scope.budgets, loaded \in BOOLEAN,
          t \in now..MaxClock :
        LET base == IF loaded /\ obj.exists THEN ParseSymlinksFile(obj.data).data
                    ELSE NewSymlinksFileData
            tok == IF loaded THEN obj.etag ELSE 0
        IN  /\ now' = t
            /\ change' = [change EXCEPT ![w] = chg]
            /\ mergeKind' = [mergeKind EXCEPT ![w] = mk]
            /\ maxRetries' = [maxRetries EXCEPT ![w] = n]
            /\ expectedETag' = [expectedETag EXCEPT ![w] = tok]
            /\ currentData' = [currentData EXCEPT ![w] = Apply(chg, base, t)]
            /\ currentETag' = [currentETag EXCEPT ![w] = tok]
            /\ backoff' = [backoff EXCEPT ![w] = initialBackoff]
            /\ attempt' = [attempt EXCEPT ![w] = 0]
            /\ IF 0 <= n
               THEN pc' = [pc EXCEPT ![w] = "save"] /\ UNCHANGED result
               ELSE Return(w, 0, Unexpected)
    /\ UNCHANGED <<mem, symlinksCache, cachePc>>
    /\ UNCHANGED <<obj, nextETag, backend, initObj, scope, log, cache, prim>>

\* One pass of the loop from the save to the end of the sleep.
Attempt(w) ==
    /\ pc[w] = "save"
    /\ \E r \in SaveSymlinksFile(backend, obj, nextETag, currentData[w], currentETag[w]) :
        LET saved == Saved(r, currentETag[w], currentData[w], obj)
            after == AfterSave(r.err, attempt[w], maxRetries[w])
        IN  /\ obj' = r.obj
            /\ nextETag' = r.next
            /\ IF after = "retry"
               THEN /\ log' = [log EXCEPT ![w] = Append(Append(@, saved), Slept(backoff[w]))]
                    /\ backoff' = [backoff EXCEPT ![w] = NextBackoff(@)]
                    /\ pc' = [pc EXCEPT ![w] = "reload"]
                    /\ UNCHANGED result
               ELSE /\ log' = [log EXCEPT ![w] = Append(@, saved)]
                    /\ UNCHANGED backoff
                    /\ IF after = "success" THEN Return(w, r.etag, NoError)
                       ELSE IF after = "fail" THEN Return(w, 0, Propagated(r.err))
                       ELSE Return(w, 0, RetriesExceeded(maxRetries[w], r.err))
    /\ UNCHANGED <<mem, symlinksCache, cachePc>>
    /\ UNCHANGED <<backend, initObj, scope, now, change, mergeKind, maxRetries,
                   expectedETag, currentData, currentETag, attempt, cache, prim>>

\* The rest of the pass: the reload and the merge.
Reload(w) ==
    /\ pc[w] = "reload"
    /\ \E g \in GetBlob(backend, obj), t \in now..MaxClock :
        LET l == LoadResult(g)
            reloaded == Reloaded(l, obj.etag, g.err)
            after == AfterReload(l.err)
            cloudData == IF after = "empty" THEN NewSymlinksFileData ELSE l.data
            cloudETag == IF after = "empty" THEN 0 ELSE l.etag
            input == MergeInput(cloudData, currentData[w])
            m == mergeFn(mergeKind[w], change[w], input, t)
        IN  IF after = "fail"
            THEN /\ Return(w, 0, ReloadFailed(l.err))
                 /\ log' = [log EXCEPT ![w] = Append(@, reloaded)]
                 /\ UNCHANGED <<now, currentData, currentETag, attempt>>
            ELSE /\ log' = [log EXCEPT ![w] = Append(Append(@, reloaded), Merged(m, input))]
                 /\ now' = t
                 /\ IF AfterMerge(m.err) = "fail"
                    THEN /\ Return(w, 0, MergeFailed(m.err))
                         /\ UNCHANGED <<currentData, currentETag, attempt>>
                    ELSE /\ currentData' = [currentData EXCEPT ![w] = NextAttemptData(m.data, @)]
                         /\ currentETag' = [currentETag EXCEPT ![w] = NextAttemptETag(cloudETag, @)]
                         /\ attempt' = [attempt EXCEPT ![w] = @ + 1]
                         /\ IF attempt[w] + 1 <= maxRetries[w]
                            THEN pc' = [pc EXCEPT ![w] = "save"] /\ UNCHANGED result
                            ELSE Return(w, 0, Unexpected)
    /\ UNCHANGED <<mem, symlinksCache, cachePc>>
    /\ UNCHANGED <<obj, nextETag, backend, initObj, scope, change, mergeKind,
                   maxRetries, expectedETag, backoff, cache, prim>>

\* ------------------------------------------- direct calls of the store operations
\* The record of a direct call: the operation and who called it, the document
\* and the token it was given (cached: the token came from the caller's cache),
\* the object before and after, the requests sent and the backend's own error,
\* and what the call returned (rnil: no document).
NoCall ==
    [op |-> "none", by |-> 0, data |-> NewSymlinksFileData, tok |-> 0, cached |-> FALSE,
     before |-> Absent, after |-> Absent, calls |-> <<>>, answer |-> ErrNil,
     rdata |-> NewSymlinksFileData, rnil |-> TRUE, retag |-> 0, err |-> ErrNil, seq |-> 0]

\* Every token the backend has given out so far, and the empty one.
Tokens == 0..(nextETag - 1)

\* The documents a caller saves: the cached one (a new one as long as nothing
\* has been loaded), as it is or with one change applied.
SaveInputs(w) ==
    {cache[w].data} \cup {Apply(chg, cache[w].data, now) : chg \in Changes}

\* The cache entry after a load: replaced as a whole by what a successful load
\* produced, kept when the load failed or reported the object unchanged.
Refresh(entry, l) ==
    IF l.err = ErrNil /\ ~l.nil THEN [data |-> l.data, etag |-> l.etag] ELSE entry

Save(w) ==
    /\ w \in scope.users
    /\ prim.seq < scope.ops
    /\ \E data \in SaveInputs(w), tok \in Tokens :
         \E r \in SaveSymlinksFile(backend, obj, nextETag, data, tok) :
            /\ obj' = r.obj
            /\ nextETag' = r.next
            /\ prim' = [NoCall EXCEPT !.op = "save", !.by = w, !.data = data, !.tok = tok,
                                      !.cached = (tok = cache[w].etag),
                                      !.before = obj, !.after = r.obj, !.calls = r.calls,
                                      !.answer = r.answer, !.retag = r.etag, !.err = r.err,
                                      !.seq = prim.seq + 1]
    /\ UNCHANGED <<mem, symlinksCache, cachePc>>
    /\ UNCHANGED <<backend, initObj, scope, now, pc, change, mergeKind, maxRetries,
                   expectedETag, currentData, currentETag, attempt, backoff, result, log,
                   cache>>

\* A load that creates the object it has not found.
Load_Rebuilds(w) ==
    /\ w \in scope.users
    /\ prim.seq < scope.ops
    /\ \E g \in GetBlob(backend, obj) :
         LET l == LoadResult(g)
             made == [exists |-> TRUE, data |-> Serialize(NewSymlinksFileData),
                      etag |-> nextETag]
         IN  /\ cache' = [cache EXCEPT ![w] = Refresh(@, l)]
             /\ obj' = IF g.err = ErrNoSuchKey THEN made ELSE obj
             /\ nextETag' = IF g.err = ErrNoSuchKey THEN nextETag + 1 ELSE nextETag
             /\ prim' = [NoCall EXCEPT !.op = "load", !.by = w, !.before = obj, !.after = obj',
                                       !.calls = <<Request("get", "none", 0)>>,
                                       !.answer = g.err, !.rdata = l.data, !.rnil = l.nil,
                                       !.retag = l.etag, !.err = l.err, !.seq = prim.seq + 1]
    /\ UNCHANGED <<mem, symlinksCache, cachePc>>
    /\ UNCHANGED <<backend, initObj, scope, now, pc, change, mergeKind,
                   maxRetries, expectedETag, currentData, currentETag, attempt, backoff,
                   result, log>>

Load(w) ==
    /\ w \in scope.users
    /\ prim.seq < scope.ops
    /\ \E g \in GetBlob(backend, obj) :
         LET l == LoadResult(g)
         IN  /\ cache' = [cache EXCEPT ![w] = Refresh(@, l)]
             /\ prim' = [NoCall EXCEPT !.op = "load", !.by = w, !.before = obj, !.after = obj,
                                       !.calls = <<Request("get", "none", 0)>>,
                                       !.answer = g.err, !.rdata = l.data, !.rnil = l.nil,
                                       !.retag = l.etag, !.err = l.err, !.seq = prim.seq + 1]
    /\ UNCHANGED <<mem, symlinksCache, cachePc>>
    /\ UNCHANGED <<obj, nextETag, backend, initObj, scope, now, pc, change, mergeKind,
                   maxRetries, expectedETag, currentData, currentETag, attempt, backoff,
                   result, log>>

LoadConditional(w) ==
    /\ w \in scope.users
    /\ prim.seq < scope.ops
    /\ \E cachedETag \in Tokens :
         \E g \in GetBlobIfChanged(backend, obj, cachedETag) :
            LET l == LoadConditionalResult(g, cachedETag)
            IN  /\ cache' = [cache EXCEPT ![w] = Refresh(@, l)]
                /\ prim' = [NoCall EXCEPT !.op = "loadIfChanged", !.by = w,
                                          !.tok = cachedETag,
                                          !.cached = (cachedETag = cache[w].etag),
                                          !.before = obj, !.after = obj,
                                          !.calls = <<Request("get", "ifChanged", cachedETag)>>,
                                          !.answer = g.err, !.rdata = l.data, !.rnil = l.nil,
                                          !.retag = l.etag, !.err = l.err,
                                          !.seq = prim.seq + 1]
    /\ UNCHANGED <<mem, symlinksCache, cachePc>>
    /\ UNCHANGED <<obj, nextETag, backend, initObj, scope, now, pc, change, mergeKind,
                   maxRetries, expectedETag, currentData, currentETag, attempt, backoff,
                   result, log>>

Delete(w) ==
    /\ w \in scope.users
    /\ prim.seq < scope.ops
    /\ \E d \in DeleteBlob(backend, obj) :
         /\ obj' = d.obj
         /\ prim' = [NoCall EXCEPT !.op = "delete", !.by = w, !.before = obj, !.after = d.obj,
                                   !.calls = <<Request("delete", "none", 0)>>,
                                   !.answer = d.err,
                                   !.err = IF d.err # ErrNil /\ ~isNotExist(d.err)
                                           THEN d.err ELSE ErrNil,
                                   !.seq = prim.seq + 1]
    /\ UNCHANGED <<mem, symlinksCache, cachePc>>
    /\ UNCHANGED <<nextETag, backend, initObj, scope, now, pc, change, mergeKind,
                   maxRetries, expectedETag, currentData, currentETag, attempt, backoff,
                   result, log, cache>>

\* The token the writers that have saved so far gave to SaveSymlinksFile.
SharedTokens ==
    IF \A v \in Writers : log[v] = <<>> THEN Tokens
    ELSE {log[v][1].held : v \in {u \in Writers : log[u] # <<>>}}

\* The documents of the racing writers: each holds at least one symlink.
RaceInputs(w) ==
    {Apply(chg, d, now) :
        chg \in {c \in Changes : c.kind = "add"},
        d \in {NewSymlinksFileData, ParseSymlinksFile(initObj.data).data}}

\* One of several concurrent calls of SaveSymlinksFile that all carry the same
\* expected token: the call is one request to the backend.
RaceSave(w) ==
    /\ w \in scope.users
    /\ pc[w] = "idle"
    /\ \E data \in RaceInputs(w), tok \in SharedTokens :
         \E r \in SaveSymlinksFile(backend, obj, nextETag, data, tok) :
            /\ obj' = r.obj
            /\ nextETag' = r.next
            /\ expectedETag' = [expectedETag EXCEPT ![w] = tok]
            /\ currentData' = [currentData EXCEPT ![w] = data]
            /\ log' = [log EXCEPT ![w] = <<Saved(r, tok, data, obj)>>]
            /\ Return(w, r.etag, Propagated(r.err))
    /\ UNCHANGED <<mem, symlinksCache, cachePc>>
    /\ UNCHANGED <<backend, initObj, scope, now, change, mergeKind, maxRetries,
                   currentETag, attempt, backoff, cache, prim>>

\* The documents a directory may hold at the start.
InitDocs ==
    {AddSymlink(NewSymlinksFileData, "link1", "../target1", 0),
     AddSymlink(AddSymlink(NewSymlinksFileData, "link1", "../target2", 0),
                "link2", "../target2", 0)}

\* --------------------------------------------- calls on a document in memory
\* The names and targets given to a document: plain ones, one with spaces, one
\* that is not valid UTF-8.
DocNames == Names \cup {"link with space", "caf<E9>"}
DocTargets == {"../target1", "../folder with spaces/file.txt", "caf<E9>"}

\* A byte string that is no JSON text.
NotJSON == [form |-> "text", version |-> 0, null |-> TRUE, symlinks |-> NoSymlinks]

\* Directory keys: the strings of at most MaxKeyLen characters over a letter and
\* the separator.
RECURSIVE KeysOfLen(_)
KeysOfLen(n) ==
    IF n = 0 THEN {<<>>}
    ELSE {Append(k, ch) : k \in KeysOfLen(n - 1), ch \in {"d", "/"}}
DirKeys == UNION {KeysOfLen(n) : n \in 0..MaxKeyLen}

SymlinksFileName == <<".geesefs_symlinks">>

\* The record of a call on the document, or of a call of a function that
\* needs none: the operation, its arguments, the document before and after, the
\* bytes written or parsed, what the parse returned, the key and its path.
NoDocCall ==
    [op |-> "none", name |-> "", target |-> "", before |-> NewSymlinksFileData,
     after |-> NewSymlinksFileData, bytes |-> EmptyBytes,
     parsed |-> ParseSymlinksFile(EmptyBytes), dirKey |-> <<>>, path |-> <<>>]

DocCalled(call) ==
    mem' = [doc |-> call.after, last |-> call, prev |-> mem.last, n |-> mem.n + 1]

CallAddSymlink ==
    /\ mem.n < MaxDocOps
    /\ \E name \in DocNames, target \in DocTargets, t \in Times :
        DocCalled([NoDocCall EXCEPT !.op = "add", !.name = name, !.target = target,
                                    !.before = mem.doc,
                                    !.after = AddSymlink(mem.doc, name, target, t)])
    /\ UNCHANGED <<storeVars, symlinksCache, cachePc>>

CallRemoveSymlink ==
    /\ mem.n < MaxDocOps
    /\ \E name \in DocNames :
        DocCalled([NoDocCall EXCEPT !.op = "remove", !.name = name, !.before = mem.doc,
                                    !.after = RemoveSymlink(mem.doc, name)])
    /\ UNCHANGED <<storeVars, symlinksCache, cachePc>>

\* The document serialized and the bytes parsed again.
CallSerializeParse ==
    /\ mem.n < MaxDocOps
    /\ LET bytes == Serialize(mem.doc)
       IN  DocCalled([NoDocCall EXCEPT !.op = "roundtrip", !.before = mem.doc,
                                       !.after = mem.doc, !.bytes = bytes,
                                       !.parsed = ParseSymlinksFile(bytes)])
    /\ UNCHANGED <<storeVars, symlinksCache, cachePc>>

\* What may be found under the key: nothing, text that is no JSON, a JSON
\* object without a symlinks member or with a null one, a serialized document.
ParseInputs ==
    {EmptyBytes, NotJSON}
    \cup {[form |-> "json", version |-> v, null |-> TRUE, symlinks |-> NoSymlinks] :
            v \in {0, SchemaVersion}}
    \cup {Serialize(d) : d \in {NewSymlinksFileData} \cup InitDocs}

CallParseSymlinksFile ==
    /\ mem.n < MaxDocOps
    /\ \E bytes \in ParseInputs :
        DocCalled([NoDocCall EXCEPT !.op = "parse", !.before = mem.doc, !.after = mem.doc,
                                    !.bytes = bytes, !.parsed = ParseSymlinksFile(bytes)])
    /\ UNCHANGED <<storeVars, symlinksCache, cachePc>>

CallGetSymlinksFilePath ==
    /\ mem.n < MaxDocOps
    /\ \E dirKey \in DirKeys :
        DocCalled([NoDocCall EXCEPT !.op = "path", !.before = mem.doc, !.after = mem.doc,
                                    !.dirKey = dirKey,
                                    !.path = getSymlinksFilePath(dirKey, SymlinksFileName)])
    /\ UNCHANGED <<storeVars, symlinksCache, cachePc>>

\* ------------------------------------------------- the cache of one directory
\* The threads that read the entry, and the one that refreshes it.
Readers == 1..NumReaders

\* sync.RWMutex: who holds the read lock, and whether the write lock is held.
Unlocked == [readers |-> {}, writer |-> FALSE]

\* The write lock taken while readers hold the read lock.
CanLock_IgnoresReaders(mu) == ~mu.writer

CanLock(mu) == mu.readers = {} /\ ~mu.writer
CanRLock(mu) == ~mu.writer

\* Each field of the entry holds the number of the load that wrote it.
CacheThreads ==
    [loads |-> 0, refresher |-> "idle",
     reader |-> [r \in Readers |->
                   [at |-> "idle", reads |-> 0, data |-> 0, etag |-> 0, loadTime |-> 0]]]

\* A reader takes the read lock, reads the three fields and lets go.
ReaderStep(r) ==
    LET me == cachePc.reader[r]
        mu == symlinksCache.mu
    IN  /\ \/ /\ me.at = "idle" /\ me.reads < MaxReads /\ CanRLock(mu)
              /\ symlinksCache' = [symlinksCache EXCEPT !.mu.readers = @ \cup {r}]
              /\ cachePc' = [cachePc EXCEPT !.reader[r].at = "data"]
           \/ /\ me.at = "data"
              /\ cachePc' = [cachePc EXCEPT !.reader[r].at = "etag",
                                            !.reader[r].data = symlinksCache.data]
              /\ UNCHANGED symlinksCache
           \/ /\ me.at = "etag"
              /\ cachePc' = [cachePc EXCEPT !.reader[r].at = "loadTime",
                                            !.reader[r].etag = symlinksCache.etag]
              /\ UNCHANGED symlinksCache
           \/ /\ me.at = "loadTime"
              /\ cachePc' = [cachePc EXCEPT !.reader[r].at = "unlock",
                                            !.reader[r].loadTime = symlinksCache.loadTime]
              /\ UNCHANGED symlinksCache
           \/ /\ me.at = "unlock"
              /\ symlinksCache' = [symlinksCache EXCEPT !.mu.readers = @ \ {r}]
              /\ cachePc' = [cachePc EXCEPT !.reader[r].at = "idle",
                                            !.reader[r].reads = @ + 1]
        /\ UNCHANGED <<storeVars, mem>>

\* The refresher takes the write lock, stores the document, the token and the
\* time of its load, and lets go.
RefreshStep ==
    LET at == cachePc.refresher
        mu == symlinksCache.mu
    IN  /\ \/ /\ at = "idle" /\ cachePc.loads < MaxLoads /\ CanLock(mu)
              /\ symlinksCache' = [symlinksCache EXCEPT !.mu.writer = TRUE]
              /\ cachePc' = [cachePc EXCEPT !.refresher = "data", !.loads = @ + 1]
           \/ /\ at = "data"
              /\ symlinksCache' = [symlinksCache EXCEPT !.data = cachePc.loads]
              /\ cachePc' = [cachePc EXCEPT !.refresher = "etag"]
           \/ /\ at = "etag"
              /\ symlinksCache' = [symlinksCache EXCEPT !.etag = cachePc.loads]
              /\ cachePc' = [cachePc EXCEPT !.refresher = "loadTime"]
           \/ /\ at = "loadTime"
              /\ symlinksCache' = [symlinksCache EXCEPT !.loadTime = cachePc.loads]
              /\ cachePc' = [cachePc EXCEPT !.refresher = "unlock"]
           \/ /\ at = "unlock"
              /\ symlinksCache' = [symlinksCache EXCEPT !.mu.writer = FALSE]
              /\ cachePc' = [cachePc EXCEPT !.refresher = "idle"]
        /\ UNCHANGED <<storeVars, mem>>

\* ------------------------------------------------------------ specification
InitObjects ==
    {Absent} \cup {[exists |-> TRUE, data |-> Serialize(d), etag |-> 1] : d \in InitDocs}

\* No call has been made on a document in memory.
NoDocumentCalls ==
    mem = [doc |-> NewSymlinksFileData, last |-> NoDocCall, prev |-> NoDocCall, n |-> 0]

\* The cache entry holds its first load and no thread uses it.
NoCacheUse ==
    /\ symlinksCache = [mu |-> Unlocked, data |-> 0, etag |-> 0, loadTime |-> 0]
    /\ cachePc = CacheThreads

InitWriters ==
    /\ pc = [w \in Writers |-> "idle"]
    /\ change = [w \in Writers |-> NoChange]
    /\ mergeKind = [w \in Writers |-> "reapply"]
    /\ maxRetries = [w \in Writers |-> 0]
    /\ expectedETag = [w \in Writers |-> 0]
    /\ currentData = [w \in Writers |-> NewSymlinksFileData]
    /\ currentETag = [w \in Writers |-> 0]
    /\ attempt = [w \in Writers |-> 0]
    /\ backoff = [w \in Writers |-> initialBackoff]
    /\ result = [w \in Writers |-> [etag |-> 0, err |-> NoError]]
    /\ log = [w \in Writers |-> <<>>]
    /\ cache = [w \in Writers |-> [data |-> NewSymlinksFileData, etag |-> 0]]
    /\ prim = NoCall

\* One caller, every backend, every budget and merge function.
Init ==
    /\ obj \in InitObjects
    /\ initObj = obj
    /\ nextETag = 2
    /\ backend \in BackendKinds
    /\ scope = [callers |-> {1}, budgets |-> Budgets, merges |-> MergeKinds,
                changes |-> Changes, users |-> {}, ops |-> 0]
    /\ now = 0
    /\ InitWriters
    /\ NoDocumentCalls
    /\ NoCacheUse

Next ==
    \/ \E w \in Writers : Begin(w)
    \/ \E w \in Writers : Attempt(w)
    \/ \E w \in Writers : Reload(w)

Spec == Init /\ [][Next]_vars

\* The same with every backend call and every merge invocation returning: a
\* call that can take its next step takes it.
Returning == \A w \in Writers : WF_vars(Attempt(w)) /\ WF_vars(Reload(w))

\* One caller, every backend, every budget and merge function, the whole call
\* within one second.
InitFair ==
    /\ obj \in InitObjects
    /\ initObj = obj
    /\ nextETag = 2
    /\ backend \in BackendKinds
    /\ scope = [callers |-> {1}, budgets |-> Budgets, merges |-> MergeKinds,
                changes |-> Changes, users |-> {}, ops |-> 0]
    /\ now = MaxClock
    /\ InitWriters
    /\ NoDocumentCalls
    /\ NoCacheUse

SpecFair == InitFair /\ [][Next]_vars /\ Returning

\* Every writer calls, against a backend that fails only with conflicts; all
\* share one budget and re-apply their change on a conflict, and the calls
\* fall within one second.
InitConc ==
    /\ obj \in InitObjects
    /\ initObj = obj
    /\ nextETag = 2
    /\ backend = "mock"
    /\ \E n \in {0, NumWriters - 1, MaxBudget} :
         scope = [callers |-> Writers, budgets |-> {n}, merges |-> {"reapply"},
                  changes |-> Changes, users |-> {}, ops |-> 0]
    /\ now = MaxClock
    /\ InitWriters
    /\ NoDocumentCalls
    /\ NoCacheUse

SpecConc == InitConc /\ [][Next]_vars

\* The store operations called directly, one after the other, with any document
\* and any token, against a backend that may fail.
InitStore ==
    /\ obj \in InitObjects
    /\ initObj = obj
    /\ nextETag = 2
    /\ backend \in {"mock", "flaky"}
    /\ scope = [callers |-> {}, budgets |-> {}, merges |-> {}, changes |-> {},
                users |-> Writers, ops |-> MaxOps]
    /\ now = MaxClock
    /\ InitWriters
    /\ NoDocumentCalls
    /\ NoCacheUse

NextStore ==
    \/ \E w \in Writers : Save(w)
    \/ \E w \in Writers : Load(w)
    \/ \E w \in Writers : LoadConditional(w)
    \/ \E w \in Writers : Delete(w)

SpecStore == InitStore /\ [][NextStore]_vars

\* One caller with a budget long enough for the delay to reach its cap, against
\* a backend that answers every conditional write with a conflict or one that
\* never fails.
InitBackoff ==
    /\ obj \in InitObjects
    /\ initObj = obj
    /\ nextETag = 2
    /\ backend \in {"mock", "alwaysConflict"}
    /\ scope = [callers |-> {1}, budgets |-> 0..LongBudget, merges |-> {"reapply"},
                changes |-> Changes, users |-> {}, ops |-> 0]
    /\ now = MaxClock
    /\ InitWriters
    /\ NoDocumentCalls
    /\ NoCacheUse

SpecBackoff == InitBackoff /\ [][Next]_vars

\* Nobody calls the store.
StoreUnused ==
    /\ obj = Absent
    /\ initObj = obj
    /\ nextETag = 2
    /\ backend = "mock"
    /\ scope = [callers |-> {}, budgets |-> {}, merges |-> {}, changes |-> {},
                users |-> {}, ops |-> 0]
    /\ now = 0
    /\ InitWriters

\* The document operations, the parser and the key resolver called one after
\* the other, on a document that is new or was loaded.
InitDocument ==
    /\ StoreUnused
    /\ \E d \in {NewSymlinksFileData} \cup InitDocs :
         mem = [doc |-> d, last |-> NoDocCall, prev |-> NoDocCall, n |-> 0]
    /\ NoCacheUse

NextDocument ==
    \/ CallAddSymlink
    \/ CallRemoveSymlink
    \/ CallSerializeParse
    \/ CallParseSymlinksFile
    \/ CallGetSymlinksFilePath

SpecDocument == InitDocument /\ [][NextDocument]_vars

\* Readers and one refresher share the cache entry of a directory.
InitCache ==
    /\ StoreUnused
    /\ NoDocumentCalls
    /\ NoCacheUse

NextCache ==
    \/ \E r \in Readers : ReaderStep(r)
    \/ RefreshStep

SpecCache == InitCache /\ [][NextCache]_vars

\* Every writer calls SaveSymlinksFile once, all with one token, against a
\* backend that may fail.
InitRace ==
    /\ obj \in InitObjects
    /\ initObj = obj
    /\ nextETag = 2
    /\ backend \in {"mock", "flaky"}
    /\ scope = [callers |-> {}, budgets |-> {}, merges |-> {}, changes |-> {},
                users |-> Writers, ops |-> 0]
    /\ now = MaxClock
    /\ InitWriters
    /\ NoDocumentCalls
    /\ NoCacheUse

NextRace == \E w \in Writers : RaceSave(w)

SpecRace == InitRace /\ [][NextRace]_vars

\* The changes of the writer that runs beside the direct calls: it creates one
\* symlink or unlinks another.
MixedChanges ==
    {[kind |-> "add", name |-> "link2", target |-> "../target2"],
     [kind |-> "remove", name |-> "link1", target |-> ""]}

\* One writer runs SaveSymlinksFileWithRetry while another calls the store
\* operations directly.
InitMixed ==
    /\ obj \in InitObjects
    /\ initObj = obj
    /\ nextETag = 2
    /\ backend \in {"mock", "flaky"}
    /\ scope = [callers |-> {1}, budgets |-> {1}, merges |-> {"reapply"},
                changes |-> MixedChanges, users |-> {NumWriters}, ops |-> MaxMixedOps]
    /\ now = MaxClock
    /\ InitWriters
    /\ NoDocumentCalls
    /\ NoCacheUse

NextMixed == Next \/ NextStore

SpecMixed == InitMixed /\ [][NextMixed]_vars

\* ------------------------------------------------------------------ claims
Steps(w, ev) == {i \in DOMAIN log[w] : log[w][i].ev = ev}
SaveCount(w) == Cardinality(Steps(w, "save"))
SleepCount(w) == Cardinality(Steps(w, "sleep"))
ReloadCount(w) == Cardinality(Steps(w, "reload"))
MergeCount(w) == Cardinality(Steps(w, "merge"))

\* No call is under way.
Quiet == \A w \in Writers : pc[w] \in {"idle", "done"}
Succeeded(w) == pc[w] = "done" /\ result[w].err = NoError

\* The document the backing object holds.
StoredDoc == ParseSymlinksFile(obj.data).data
Stored(name) == obj.exists /\ HasSymlink(StoredDoc, name)
StoredWith(name, target) ==
    obj.exists /\ GetSymlink(StoredDoc, name) = [target |-> target, ok |-> TRUE]

\* The token a writer read last before step i of its call: that of the latest
\* reload, or the one the call was given.
LastRead(w, i) ==
    LET before == {j \in Steps(w, "reload") : j < i}
    IN  IF before = {} THEN expectedETag[w]
        ELSE log[w][CHOOSE j \in before : \A k \in before : k <= j].tok

\* C1: once all calls have returned, every entry whose add returned success
\* and that no writer removed is in the backing object.
C1_NoUpdateLost ==
    Quiet =>
        \A w \in Writers :
            (/\ Succeeded(w)
             /\ change[w].kind = "add"
             /\ \A v \in Writers :
                  ~(change[v].kind = "remove" /\ change[v].name = change[w].name))
            => Stored(change[w].name)

FirstTry(w) == log[w] # <<>> /\ log[w][1].err = ErrNil
Joined(w) == pc[w] # "idle"

\* Writers a and b, and nobody else, have added different names to a directory
\* without a backing object, each with the empty token and a budget of at
\* least one retry, and both calls have returned.
C2_Case(a, b) ==
    /\ a # b
    /\ ~initObj.exists
    /\ backend = "mock"
    /\ \A w \in {a, b} :
         /\ pc[w] = "done"
         /\ change[w].kind = "add"
         /\ expectedETag[w] = 0
         /\ mergeKind[w] = "reapply"
         /\ maxRetries[w] >= 1
    /\ change[a].name # change[b].name
    /\ \A v \in Writers \ {a, b} : ~Joined(v)

\* C2: two concurrent creations of different names in a directory without a
\* backing object both succeed, the object ends with both entries and their
\* targets, exactly one writer succeeds on its first attempt and the other
\* one's merge function is invoked exactly once.
C2_ConcurrentCreation ==
    \A a, b \in Writers :
        C2_Case(a, b) =>
            /\ Succeeded(a) /\ Succeeded(b)
            /\ StoredWith(change[a].name, change[a].target)
            /\ StoredWith(change[b].name, change[b].target)
            /\ DOMAIN StoredDoc.Symlinks = {change[a].name, change[b].name}
            /\ FirstTry(a) # FirstTry(b)
            /\ \A w \in {a, b} : MergeCount(w) = IF FirstTry(w) THEN 0 ELSE 1

C2_Witness ==
    \E a, b \in Writers :
        /\ C2_Case(a, b)
        /\ maxRetries[a] = 3 /\ maxRetries[b] = 3
        /\ FirstTry(a) /\ MergeCount(b) = 1
        /\ Stored(change[a].name) /\ Stored(change[b].name)

\* C3: every put or delete a save sends carries a precondition, and the
\* precondition is the token the writer read last before that attempt.
C3_EveryMutationConditional ==
    \A w \in Writers : \A i \in Steps(w, "save") :
        LET e == log[w][i]
        IN  e.call \in {"put", "delete"} =>
                /\ e.held = LastRead(w, i)
                /\ \/ e.cond = "ifMatch" /\ e.tok = e.held /\ e.held # 0
                   \/ e.cond = "ifNoneMatch" /\ e.held = 0

\* The call of w is over, every save of it was answered with a conflict and
\* every reload and merge in between succeeded.
OnlyConflicts(w) ==
    /\ pc[w] = "done"
    /\ maxRetries[w] >= 0
    /\ \A i \in Steps(w, "save") : log[w][i].err = ErrPreconditionFailed
    /\ \A i \in Steps(w, "reload") \cup Steps(w, "merge") : log[w][i].err = ErrNil

\* C4: a call with budget N whose saves all end in a conflict returns
\* RetriesExceeded, wrapping the last conflict and naming N, after exactly N+1
\* saves and exactly N invocations of the merge function.
C4_RetriesExceeded ==
    \A w \in Writers :
        OnlyConflicts(w) =>
            /\ result[w] = [etag |-> 0,
                            err |-> RetriesExceeded(maxRetries[w], ErrPreconditionFailed)]
            /\ SaveCount(w) = maxRetries[w] + 1
            /\ MergeCount(w) = maxRetries[w]

C4_Witness ==
    \E w \in Writers :
        /\ OnlyConflicts(w)
        /\ maxRetries[w] = 2
        /\ SaveCount(w) = 3 /\ MergeCount(w) = 2
        /\ result[w].err.budget = 2

\* C5: a save that fails with an error other than a conflict ends the call
\* with that error, unchanged: nothing follows it in the call.
C5_OtherErrorsReturnAtOnce ==
    \A w \in Writers : \A i \in Steps(w, "save") :
        (log[w][i].err # ErrNil /\ log[w][i].err # ErrPreconditionFailed) =>
            /\ i = Len(log[w])
            /\ pc[w] = "done"
            /\ result[w] = [etag |-> 0, err |-> Propagated(log[w][i].err)]

\* C6: a call with a budget of zero makes exactly one save and nothing else;
\* if that save conflicts the call fails with RetriesExceeded.
C6_ZeroBudget ==
    \A w \in Writers :
        (Joined(w) /\ maxRetries[w] = 0) =>
            /\ pc[w] \in {"save", "done"}
            /\ SleepCount(w) = 0 /\ ReloadCount(w) = 0 /\ MergeCount(w) = 0
            /\ pc[w] = "done" =>
                 /\ SaveCount(w) = 1
                 /\ log[w][1].err = ErrPreconditionFailed =>
                      result[w] = [etag |-> 0,
                                   err |-> RetriesExceeded(0, ErrPreconditionFailed)]

C6_Witness ==
    \E w \in Writers :
        /\ pc[w] = "done" /\ maxRetries[w] = 0
        /\ log[w][1].err = ErrPreconditionFailed
        /\ result[w].err = RetriesExceeded(0, ErrPreconditionFailed)

\* C7: when the merge function returns an error the call ends there with
\* MergeFailed wrapping that error, whatever budget remains, and the call has
\* not modified the backing object.
C7_MergeFailed ==
    \A w \in Writers : \A i \in Steps(w, "merge") :
        log[w][i].err # ErrNil =>
            /\ i = Len(log[w])
            /\ pc[w] = "done"
            /\ result[w] = [etag |-> 0, err |-> MergeFailed(log[w][i].err)]
            /\ \A j \in Steps(w, "save") : log[w][j].is = log[w][j].was
            /\ obj = initObj

C7_Witness ==
    \E w \in Writers :
        /\ pc[w] = "done"
        /\ maxRetries[w] = 3 /\ SaveCount(w) = 1
        /\ result[w].err = MergeFailed(ErrMerge)
        /\ obj.exists

\* Writer a has removed the last symlink of the directory, deleting the
\* object; writer b, given the token of that object, has added a symlink with a
\* budget of at least one retry, and its first save found the object gone.
\* Nobody else has called.
C8_Case(a, b) ==
    /\ a # b
    /\ initObj.exists
    /\ backend = "mock"
    /\ change[a].kind = "remove" /\ Succeeded(a)
    /\ \E i \in Steps(a, "save") : log[a][i].call = "delete" /\ log[a][i].was # 0
    /\ change[b].kind = "add" /\ pc[b] = "done"
    /\ mergeKind[b] = "reapply"
    /\ expectedETag[b] # 0
    /\ maxRetries[b] >= 1
    /\ log[b][1].was = 0
    /\ \A v \in Writers \ {a, b} : ~Joined(v)

\* C8: the conditional put of b fails, its reload yields the empty document
\* and the empty token without an error, and its call ends in success with a
\* newly created object that holds its entry.
C8_AddAfterLastDeletion ==
    \A a, b \in Writers :
        C8_Case(a, b) =>
            /\ Len(log[b]) = 5
            /\ log[b][1].call = "put" /\ log[b][1].cond = "ifMatch"
            /\ log[b][1].err = ErrPreconditionFailed
            /\ log[b][3].ev = "reload" /\ log[b][3].err = ErrNil
            /\ log[b][3].tok = 0 /\ log[b][3].empty
            /\ log[b][5].call = "put" /\ log[b][5].cond = "ifNoneMatch"
            /\ log[b][5].err = ErrNil /\ log[b][5].was = 0
            /\ Succeeded(b)
            /\ result[b].etag = obj.etag /\ obj.etag # expectedETag[b]
            /\ StoredWith(change[b].name, change[b].target)
            /\ DOMAIN StoredDoc.Symlinks = {change[b].name}

C8_Witness ==
    \E a, b \in Writers :
        /\ C8_Case(a, b)
        /\ Succeeded(b)
        /\ Stored(change[b].name)

\* The entries of the object as it was before any call.
InitDoc == ParseSymlinksFile(initObj.data).data

\* The object exists; w has called with the empty token, a budget of at least
\* one retry and a merge function that adds its entry, a new name, to the
\* reloaded document, and the call has returned.
C9_Case(w) ==
    /\ initObj.exists
    /\ backend = "mock"
    /\ pc[w] = "done"
    /\ change[w].kind = "add"
    /\ ~HasSymlink(InitDoc, change[w].name)
    /\ expectedETag[w] = 0
    /\ mergeKind[w] = "reapply"
    /\ maxRetries[w] >= 1
    /\ \A v \in Writers \ {w} : ~Joined(v)

\* C9: the call succeeds after exactly one invocation of the merge function and
\* the object ends with every entry it had plus the new one.
C9_CreateOverExisting ==
    \A w \in Writers :
        C9_Case(w) =>
            /\ Succeeded(w)
            /\ MergeCount(w) = 1 /\ SaveCount(w) = 2
            /\ obj.exists /\ obj.etag = result[w].etag
            /\ DOMAIN StoredDoc.Symlinks = DOMAIN InitDoc.Symlinks \cup {change[w].name}
            /\ \A n \in DOMAIN InitDoc.Symlinks : StoredDoc.Symlinks[n] = InitDoc.Symlinks[n]
            /\ StoredDoc.Symlinks[change[w].name].Target = change[w].target

C9_Witness ==
    \E w \in Writers :
        /\ C9_Case(w)
        /\ Succeeded(w)
        /\ Cardinality(DOMAIN StoredDoc.Symlinks) = 2

\* C10: a save of an empty document with the empty token sends nothing to the
\* backend, leaves the object as it is and returns the empty token and no
\* error.
C10_EmptySaveIsNoOp ==
    \A w \in Writers : \A i \in Steps(w, "save") :
        (log[w][i].empty /\ log[w][i].held = 0) =>
            /\ log[w][i].call = "none"
            /\ log[w][i].err = ErrNil
            /\ log[w][i].is = log[w][i].was
            /\ i = Len(log[w])
            /\ pc[w] = "done"
            /\ result[w] = [etag |-> 0, err |-> NoError]
            /\ obj = initObj

C10_Witness ==
    \E w \in Writers : \E i \in Steps(w, "save") :
        /\ log[w][i].empty /\ log[w][i].held = 0
        /\ log[w][i].was # 0
        /\ obj.exists

\* The last direct call was a SaveSymlinksFile, and the backend answered its
\* request: it did not fail for a reason of its own.
DirectSave == prim.op = "save"
Answered == prim.answer \notin PutFaults(backend) \cup DeleteFaults(backend)

C11_Case == DirectSave /\ IsEmpty(prim.data) /\ prim.tok # 0

\* C11: a save of an empty document with a non-empty token sends one delete,
\* after which the object is gone, and returns the empty token; when the object
\* was gone already the call returns success all the same.
C11_EmptySaveDeletes ==
    C11_Case =>
        /\ prim.calls = <<Request("delete", "none", 0)>>
        /\ prim.retag = 0
        /\ Answered => (prim.err = ErrNil /\ ~prim.after.exists)
        /\ (~prim.before.exists /\ prim.answer = ErrNoSuchKey) => prim.err = ErrNil

C11_Witness ==
    /\ C11_Case
    /\ prim.before.exists /\ prim.tok = prim.before.etag
    /\ ~obj.exists
    /\ prim.err = ErrNil

C12_Case == DirectSave /\ ~IsEmpty(prim.data) /\ prim.tok = 0

\* C12: a save of a non-empty document with the empty token sends one put that
\* carries If-None-Match and no If-Match; it creates the object and returns its
\* token when there is none, and fails with a conflict, leaving the object as
\* it is, when there is one.
C12_CreateOnlyIfAbsent ==
    C12_Case =>
        /\ prim.calls = <<Request("put", "ifNoneMatch", 0)>>
        /\ prim.before.exists =>
             /\ prim.err # ErrNil /\ prim.retag = 0
             /\ prim.after = prim.before
             /\ Answered => prim.err = ErrPreconditionFailed
        /\ (~prim.before.exists /\ Answered) =>
             /\ prim.err = ErrNil /\ prim.retag # 0
             /\ prim.after = [exists |-> TRUE, data |-> Serialize(prim.data),
                              etag |-> prim.retag]

C12_Witness ==
    /\ C12_Case
    /\ prim.before.exists
    /\ prim.err = ErrPreconditionFailed
    /\ obj = initObj

C13_Case == DirectSave /\ ~IsEmpty(prim.data) /\ prim.tok # 0

\* C13: a save of a non-empty document with a non-empty token sends one put that
\* carries If-Match with that token and no If-None-Match; it replaces the
\* object and returns its new token exactly when the object's token is the
\* expected one, and fails with a conflict when the object has another token
\* or is gone.
C13_ReplaceOnlyIfMatch ==
    C13_Case =>
        /\ prim.calls = <<Request("put", "ifMatch", prim.tok)>>
        /\ prim.err = ErrNil => (prim.before.exists /\ prim.before.etag = prim.tok)
        /\ Answered =>
             IF prim.before.exists /\ prim.before.etag = prim.tok
             THEN /\ prim.err = ErrNil
                  /\ prim.retag \notin {0, prim.tok}
                  /\ prim.after = [exists |-> TRUE, data |-> Serialize(prim.data),
                                   etag |-> prim.retag]
             ELSE /\ prim.err = ErrPreconditionFailed /\ prim.retag = 0
                  /\ prim.after = prim.before

C13_Witness ==
    /\ C13_Case
    /\ prim.seq = 2
    /\ prim.tok = initObj.etag /\ prim.tok # prim.before.etag
    /\ prim.err = ErrPreconditionFailed

C15_NoEmptyDocumentStored == obj.exists => ~IsEmpty(StoredDoc)

C15_Witness ==
    /\ \E w \in Writers : \E i \in Steps(w, "save") :
          log[w][i].empty /\ log[w][i].call = "delete" /\ log[w][i].err = ErrNil
    /\ DirectSave
    /\ ~IsEmpty(prim.data) /\ prim.err = ErrNil
    /\ obj.exists /\ obj.etag = prim.retag

DirectLoad == prim.op = "load"

\* C17: LoadSymlinksFile returns the empty document, the empty token and no
\* error when the backend reports that the object does not exist; it returns
\* every other error of the backend unchanged, and no document; for an object
\* that exists it returns the parsed document and the object's token.
C17_LoadOutcomes ==
    DirectLoad =>
        /\ prim.answer = ErrNoSuchKey =>
             (prim.err = ErrNil /\ ~prim.rnil /\ IsEmpty(prim.rdata) /\ prim.retag = 0)
        /\ prim.answer \notin {ErrNil, ErrNoSuchKey} =>
             (prim.err = prim.answer /\ prim.rnil)
        /\ prim.answer = ErrNil =>
             /\ prim.err = ErrNil /\ ~prim.rnil
             /\ prim.rdata = ParseSymlinksFile(prim.before.data).data
             /\ prim.retag = prim.before.etag

\* C18: the loop takes the failure of a save for a conflict only when the
\* backend reported a failed precondition: only then does it sleep, reload and
\* merge, or give up with RetriesExceeded; every other failure is returned to
\* the caller as it is.
C18_OnlyConflictsRetried ==
    \A w \in Writers : \A i \in Steps(w, "save") :
        /\ (i < Len(log[w]) /\ log[w][i + 1].ev = "sleep") =>
             log[w][i].answer = ErrPreconditionFailed
        /\ (pc[w] = "done" /\ i = Len(log[w])
               /\ result[w].err.wrap = RetriesExceeded(0, ErrNil).wrap) =>
             log[w][i].answer = ErrPreconditionFailed
        /\ (pc[w] = "done" /\ log[w][i].answer \notin {ErrNil, ErrPreconditionFailed}
               /\ ~isNotExist(log[w][i].answer)) =>
             result[w] = [etag |-> 0, err |-> Propagated(log[w][i].answer)]

DirectLoadConditional == prim.op = "loadIfChanged"

\* C19: a conditional load with the token the object has now returns no
\* document, that same token and no error; such is the second of two
\* conditional loads with nothing written in between.
C19_ConditionalLoadNotModified ==
    (/\ DirectLoadConditional
     /\ prim.before.exists /\ prim.tok = prim.before.etag
     /\ prim.answer \notin GetFaults(backend)) =>
        /\ prim.rnil
        /\ prim.retag = prim.tok
        /\ prim.err = ErrNil

C19_Witness ==
    /\ DirectLoadConditional
    /\ prim.seq = 2
    /\ prim.cached /\ prim.tok # 0
    /\ prim.rnil /\ prim.err = ErrNil
    /\ prim.retag = obj.etag

\* C20: a conditional load of an object that does not exist returns an empty
\* document, not none, the empty token and no error, whatever the cached token.
C20_ConditionalLoadDeleted ==
    (/\ DirectLoadConditional
     /\ ~prim.before.exists
     /\ prim.answer \notin GetFaults(backend)) =>
        /\ ~prim.rnil /\ IsEmpty(prim.rdata)
        /\ prim.retag = 0
        /\ prim.err = ErrNil

C20_Witness ==
    /\ DirectLoadConditional
    /\ initObj.exists /\ ~obj.exists
    /\ prim.tok = initObj.etag
    /\ ~prim.rnil /\ prim.retag = 0

\* Writer a has added a symlink with a retrying call that returned success,
\* nothing has been written since, and then another process has loaded the
\* document, directly or on condition with a token that is not the current
\* one, and the backend has answered.
C21_Case(a) ==
    /\ Succeeded(a) /\ change[a].kind = "add"
    /\ prim.op \in {"load", "loadIfChanged"}
    /\ prim.by # a
    /\ prim.before.exists /\ prim.before.etag = result[a].etag
    /\ prim.op = "loadIfChanged" => prim.tok # prim.before.etag
    /\ prim.answer \notin GetFaults(backend)

\* C21: a load by another process after a successful retrying add returns a
\* document that holds the added name with its target, and the token the add
\* returned.
C21_CrossMountVisibility ==
    \A a \in Writers :
        C21_Case(a) =>
            /\ prim.err = ErrNil /\ ~prim.rnil
            /\ GetSymlink(prim.rdata, change[a].name) = [target |-> change[a].target, ok |-> TRUE]
            /\ prim.retag = result[a].etag

C21_Witness ==
    \E a \in Writers :
        /\ C21_Case(a)
        /\ MergeCount(a) = 1
        /\ prim.op = "loadIfChanged" /\ prim.tok = initObj.etag /\ prim.tok # 0
        /\ HasSymlink(prim.rdata, change[a].name)

\* This step is a direct load, plain or conditional.
DirectLoadStep == prim' # prim /\ prim'.op \in {"load", "loadIfChanged"}

\* This step is a save of a document with entries that succeeds, direct or in
\* a retrying call.
NonEmptySaveStep ==
    \/ prim' # prim /\ prim'.op = "save" /\ ~IsEmpty(prim'.data) /\ prim'.err = ErrNil
    \/ \E w \in Writers :
         /\ pc[w] = "save" /\ log'[w] # log[w]
         /\ ~IsEmpty(currentData[w])
         /\ log'[w][Len(log[w]) + 1].err = ErrNil

\* C22: a load, plain or conditional or within a retrying call, sends nothing
\* but a get and leaves the object as it is; of an object that is gone it
\* returns the empty document and the empty token; and an object that is gone
\* comes back only by a successful save of a document that has entries.
C22_NoAutoRebuild ==
    [][/\ DirectLoadStep =>
            /\ obj' = obj /\ prim'.after = prim'.before
            /\ \A i \in DOMAIN prim'.calls : prim'.calls[i].call = "get"
            /\ (~obj.exists /\ prim'.answer \notin GetFaults(backend)) =>
                 /\ prim'.err = ErrNil /\ ~prim'.rnil
                 /\ IsEmpty(prim'.rdata) /\ prim'.retag = 0
       /\ \A w \in Writers : (pc[w] = "reload" /\ pc'[w] # "reload") => obj' = obj
       /\ (~obj.exists /\ obj'.exists) => NonEmptySaveStep]_vars

C22_Witness ==
    /\ prim.op \in {"load", "loadIfChanged"}
    /\ initObj.exists /\ ~obj.exists
    /\ prim.err = ErrNil /\ ~prim.rnil /\ IsEmpty(prim.rdata) /\ prim.retag = 0

DirectDelete == prim.op = "delete"

\* C27: DeleteSymlinksFile sends one delete without a precondition; it returns
\* success, with the object gone, whether the object existed or not, and it
\* returns to the caller every error of the backend other than not-exist.
C27_DeleteOutcomes ==
    DirectDelete =>
        /\ prim.calls = <<Request("delete", "none", 0)>>
        /\ prim.answer \in {ErrNil, ErrNoSuchKey} => prim.err = ErrNil
        /\ prim.err = ErrNil => ~prim.after.exists
        /\ prim.answer \notin {ErrNil, ErrNoSuchKey} =>
             (prim.err = prim.answer /\ prim.after = prim.before)


\* A save attempt that the backend refused for its precondition.
ConflictingSave(e) == e.ev = "save" /\ e.answer = ErrPreconditionFailed

\* The steps of one call in order: a save first; a sleep only after a save, a
\* reload only after the sleep, a merge only after the reload, the next save
\* only after the merge.
C29_Order(w) ==
    \A i \in DOMAIN log[w] :
        LET e == log[w][i]
        IN  /\ i = 1 => e.ev = "save"
            /\ i > 1 =>
                 LET p == log[w][i - 1]
                 IN  /\ e.ev = "sleep" => p.ev = "save"
                     /\ e.ev = "reload" => p.ev = "sleep"
                     /\ e.ev = "merge" => (p.ev = "reload" /\ p.err = ErrNil)
                     /\ e.ev = "save" => (p.ev = "merge" /\ p.err = ErrNil)

\* The merge is given the reload's document; the next save is given the
\* merge's document and the reload's token.
C29_DataFlow(w) ==
    \A i \in Steps(w, "merge") :
        /\ log[w][i].in = log[w][i - 1].doc
        /\ i < Len(log[w]) =>
             /\ log[w][i + 1].doc = log[w][i].doc
             /\ log[w][i + 1].held = log[w][i - 1].tok

\* C29: within one retry round the steps come in the order sleep, reload,
\* merge, next save; the merge function is called only after a conflicting save
\* attempt, receives exactly the document the round's reload returned, and the
\* next attempt uses the merge's result with the reload's token.
C29_RoundOrder ==
    \A w \in Writers :
        /\ C29_Order(w)
        /\ C29_DataFlow(w)
        /\ \A i \in Steps(w, "merge") : ConflictingSave(log[w][i - 3])

\* The same with the conflict taken as the loop classifies it.
C29_RoundOrderClassified ==
    \A w \in Writers :
        /\ C29_Order(w)
        /\ C29_DataFlow(w)
        /\ \A i \in Steps(w, "merge") :
             log[w][i - 3].ev = "save" /\ isPreconditionFailed(log[w][i - 3].err)

\* The smaller of two numbers.
Min(a, b) == IF a <= b THEN a ELSE b

\* How many sleeps a call has made up to step i of its log.
SleepsUpTo(w, i) == Cardinality({j \in Steps(w, "sleep") : j <= i})

\* C30: the k-th sleep of a call (k from 1) lasts min(50 * 2^(k-1), 2000)
\* milliseconds; there is no sleep before the first attempt, and none after
\* the attempt that exhausts the budget.
C30_BackoffSchedule ==
    \A w \in Writers :
        /\ \A i \in Steps(w, "sleep") :
             /\ log[w][i].dur = Min(50 * 2 ^ (SleepsUpTo(w, i) - 1), 2000)
             /\ \E j \in Steps(w, "save") : j < i
             /\ SleepsUpTo(w, i) <= maxRetries[w]
        /\ (pc[w] = "done" /\ log[w] # <<>>) => log[w][Len(log[w])].ev # "sleep"
        /\ (pc[w] = "done" /\ result[w].err.wrap = RetriesExceeded(0, ErrNil).wrap) =>
             /\ log[w][Len(log[w])].ev = "save"
             /\ Cardinality(Steps(w, "sleep")) = maxRetries[w]

\* A call ran out of a budget long enough for the delay to reach its cap.
C30_Witness ==
    \E w \in Writers :
        /\ pc[w] = "done"
        /\ result[w].err.wrap = RetriesExceeded(0, ErrNil).wrap
        /\ \E i \in Steps(w, "sleep") :
             log[w][i].dur = 2000 /\ 50 * 2 ^ (SleepsUpTo(w, i) - 1) > 2000

\* The last call on the document in memory.
DocCall(op) == mem.last.op = op

\* C23: for every document d, ParseSymlinksFile(d.Serialize()) succeeds and
\* returns a document with the same version and exactly the same entries,
\* name -> (target, mtime), as d.
C23_RoundTrip ==
    DocCall("roundtrip") =>
        /\ mem.last.parsed.err = ErrNil
        /\ ~mem.last.parsed.nil
        /\ mem.last.parsed.data.Version = mem.last.before.Version
        /\ mem.last.parsed.data.Symlinks = mem.last.before.Symlinks

\* Every name and every target of the document is valid UTF-8.
AllValidUTF8(s) ==
    \A n \in DOMAIN s.Symlinks :
        n \notin DOMAIN InvalidUTF8 /\ s.Symlinks[n].Target \notin DOMAIN InvalidUTF8

\* The round trip of the documents whose strings are all valid UTF-8.
C23_RoundTripValidUTF8 ==
    (DocCall("roundtrip") /\ AllValidUTF8(mem.last.before)) => C23_RoundTrip

\* C24: removing a name that is not in the document leaves the document as it
\* was; adding the same name with the same target twice leaves one entry for
\* the name, with that target, and the other entries as they were.
C24_Idempotence ==
    /\ (DocCall("remove") /\ ~HasSymlink(mem.last.before, mem.last.name)) =>
         mem.last.after = mem.last.before
    /\ (DocCall("add") /\ mem.prev.op = "add" /\ mem.prev.name = mem.last.name
            /\ mem.prev.target = mem.last.target) =>
         /\ DOMAIN mem.last.after.Symlinks = DOMAIN mem.prev.after.Symlinks
         /\ GetSymlink(mem.last.after, mem.last.name) =
              [target |-> mem.last.target, ok |-> TRUE]
         /\ \A n \in DOMAIN mem.last.after.Symlinks \ {mem.last.name} :
              mem.last.after.Symlinks[n] = mem.prev.after.Symlinks[n]

\* The same name and target were added twice to a document that holds another
\* entry, the second time at a later second.
C24_Witness ==
    /\ DocCall("add") /\ mem.prev.op = "add"
    /\ mem.prev.name = mem.last.name /\ mem.prev.target = mem.last.target
    /\ Cardinality(DOMAIN mem.last.after.Symlinks) > 1
    /\ mem.last.after.Symlinks[mem.last.name].Mtime
         # mem.prev.after.Symlinks[mem.last.name].Mtime

\* C25: ParseSymlinksFile returns a new empty document of version 1 for empty
\* input; an error and no document for input that is no valid encoding; and
\* for a valid encoding whose symlinks member is null or missing a document
\* whose map is empty and not nil.
C25_ParseOutcomes ==
    DocCall("parse") =>
        LET bytes == mem.last.bytes
            parsed == mem.last.parsed
        IN  /\ bytes.form = "empty" =>
                 /\ parsed.err = ErrNil /\ ~parsed.nil /\ ~parsed.nilmap
                 /\ parsed.data.Version = 1 /\ IsEmpty(parsed.data)
            /\ bytes.form \notin {"empty", "json"} =>
                 (parsed.err # ErrNil /\ parsed.nil)
            /\ (bytes.form = "json" /\ bytes.null) =>
                 /\ parsed.err = ErrNil /\ ~parsed.nil /\ ~parsed.nilmap
                 /\ IsEmpty(parsed.data)

\* A JSON object without a symlinks map was parsed.
C25_Witness ==
    /\ DocCall("parse")
    /\ mem.last.bytes.form = "json" /\ mem.last.bytes.null
    /\ mem.last.parsed.err = ErrNil /\ IsEmpty(mem.last.parsed.data)

\* A string without its trailing separators.
RECURSIVE TrimSeparators(_)
TrimSeparators(str) ==
    IF HasSuffixSlash(str) THEN TrimSeparators(SubSeq(str, 1, Len(str) - 1)) ELSE str

\* C26: getSymlinksFilePath returns the file name for the empty prefix; for
\* every other prefix, whether or not it ends with one or more separators, it
\* returns the prefix brought to end with exactly one separator, then the file
\* name.
C26_PathNormalized ==
    DocCall("path") =>
        mem.last.path =
            IF mem.last.dirKey = <<>> THEN SymlinksFileName
            ELSE TrimSeparators(mem.last.dirKey) \o <<"/">> \o SymlinksFileName

\* C26 as amended: the file name for the empty prefix; for every other prefix
\* the prefix as it is, then one separator if the prefix does not end with
\* one, then the file name; the separators a prefix ends with are all kept.
C26_PathAppendsMissingSeparator ==
    DocCall("path") =>
        LET dirKey == mem.last.dirKey
            path == mem.last.path
            sep == IF dirKey # <<>> /\ dirKey[Len(dirKey)] # "/" THEN 1 ELSE 0
        IN  /\ Len(path) = Len(dirKey) + sep + Len(SymlinksFileName)
            /\ SubSeq(path, 1, Len(dirKey)) = dirKey
            /\ sep = 1 => path[Len(dirKey) + 1] = "/"
            /\ SubSeq(path, Len(dirKey) + sep + 1, Len(path)) = SymlinksFileName

\* The path of a prefix that ends with two separators was asked for.
C26_Witness ==
    /\ DocCall("path")
    /\ Len(mem.last.dirKey) > 2
    /\ HasSuffixSlash(mem.last.dirKey)
    /\ HasSuffixSlash(SubSeq(mem.last.dirKey, 1, Len(mem.last.dirKey) - 1))
    /\ mem.last.path = mem.last.dirKey \o SymlinksFileName

\* A reader has read the three fields of the entry.
HasRead(r) == cachePc.reader[r].at = "unlock"

\* C28: a refresh replaces the entry as a whole: under every interleaving of
\* readers and one refresher, the document, the token and the load time a
\* reader has read come from one load; several readers may hold the entry at
\* once, and while a refresh holds it nobody else does.
C28_AtomicRefresh ==
    /\ \A r \in Readers :
         LET me == cachePc.reader[r]
         IN  /\ me.at \in {"loadTime", "unlock"} => me.etag = me.data
             /\ me.at = "unlock" => me.loadTime = me.data
    /\ symlinksCache.mu.writer => symlinksCache.mu.readers = {}
    /\ cachePc.refresher # "idle" => symlinksCache.mu.writer

\* Two readers hold the entry at once, one of them having read the three fields
\* of a refreshed entry.
C28_Witness ==
    /\ Cardinality(symlinksCache.mu.readers) > 1
    /\ \E r \in Readers : HasRead(r) /\ cachePc.reader[r].data > 0

\* What a call with a budget of N may do: N+1 saves, N sleeps, N reloads, N
\* merges, and no fall through the loop.
WithinBudget(w) ==
    /\ SaveCount(w) <= maxRetries[w] + 1
    /\ SleepCount(w) <= maxRetries[w]
    /\ ReloadCount(w) <= maxRetries[w]
    /\ MergeCount(w) <= maxRetries[w]
    /\ result[w].err # Unexpected

\* C31: every call with a budget N >= 0 ends, in success or in an error, when
\* every backend call and every merge invocation returns; it makes at most
\* N+1 saves, N sleeps, N reloads and N merges, and never returns 'save failed
\* unexpectedly'.
C31_Terminates ==
    /\ [](\A w \in Writers : (Joined(w) /\ maxRetries[w] >= 0) => WithinBudget(w))
    /\ \A w \in Writers : (Joined(w) /\ maxRetries[w] >= 0) ~> (pc[w] = "done")

\* A call has used its whole budget: N+1 saves, N sleeps, N reloads, N merges.
C31_Witness ==
    \E w \in Writers :
        /\ pc[w] = "done" /\ maxRetries[w] = MaxBudget
        /\ SaveCount(w) = maxRetries[w] + 1 /\ SleepCount(w) = maxRetries[w]
        /\ ReloadCount(w) = maxRetries[w] /\ MergeCount(w) = maxRetries[w]

\* A reload that failed: the backend answered with an error other than
\* not-exist, or the stored bytes could not be parsed.
FailedReload(e) ==
    e.ev = "reload" /\ (e.answer \notin {ErrNil, ErrNoSuchKey} \/ e.err # ErrNil)

\* The error of a failed reload.
ReloadError(e) == IF e.answer # ErrNil THEN e.answer ELSE e.err

\* C32: when the reload of a retry round fails with an error other than
\* not-exist, the call ends at once with that error wrapped: no merge in that
\* round, no further save.
C32_ReloadFailureEndsCall ==
    \A w \in Writers : \A i \in DOMAIN log[w] :
        FailedReload(log[w][i]) =>
            /\ i = Len(log[w])
            /\ pc[w] = "done"
            /\ result[w] = [etag |-> 0, err |-> ReloadFailed(ReloadError(log[w][i]))]

\* The same for the reloads that LoadSymlinksFile reports as failed.
C32_ReportedReloadFailureEndsCall ==
    \A w \in Writers : \A i \in Steps(w, "reload") :
        log[w][i].err # ErrNil =>
            /\ i = Len(log[w])
            /\ pc[w] = "done"
            /\ result[w] = [etag |-> 0, err |-> ReloadFailed(log[w][i].err)]

\* The writers whose racing save has returned, and those whose save succeeded.
Raced == {w \in Writers : pc[w] = "done" /\ log[w] # <<>>}
RaceWinners == {w \in Raced : log[w][1].err = ErrNil}

\* C33: of the concurrent saves of non-empty documents that carry the same
\* expected token at most one succeeds; every other one leaves the object as it
\* was and, the backend having answered it, returns the conflict.
C33_AtMostOneWinner ==
    /\ Cardinality(RaceWinners) <= 1
    /\ \A w \in Raced \ RaceWinners :
         /\ log[w][1].is = log[w][1].was
         /\ log[w][1].answer \notin PutFaults(backend) =>
              /\ log[w][1].err = ErrPreconditionFailed
              /\ result[w] = [etag |-> 0, err |-> Propagated(ErrPreconditionFailed)]
    /\ \A w \in RaceWinners :
         /\ log[w][1].held = log[w][1].was
         /\ log[w][1].is # log[w][1].was
         /\ StoredDoc.Symlinks # NoSymlinks

\* All writers have saved with the token of the stored object; one has won and
\* every other one was refused by the backend.
C33_Witness ==
    /\ Raced = Writers
    /\ initObj.exists
    /\ Cardinality(RaceWinners) = 1
    /\ \A w \in Writers : log[w][1].held = initObj.etag
    /\ \A w \in Writers \ RaceWinners : log[w][1].answer = ErrPreconditionFailed

\* Every name but the one of the last call has the entry it had, or none as
\* before, and the version is what it was.
OthersUntouched ==
    /\ mem.last.after.Version = mem.last.before.Version
    /\ \A m \in DocNames \ {mem.last.name} :
         /\ HasSymlink(mem.last.after, m) = HasSymlink(mem.last.before, m)
         /\ HasSymlink(mem.last.after, m) =>
              mem.last.after.Symlinks[m] = mem.last.before.Symlinks[m]

\* C34: AddSymlink(n, t) and RemoveSymlink(n) change the entry of n only: after
\* the add GetSymlink(n) is (t, true), after the removal HasSymlink(n) is false
\* and GetSymlink(n) is ("", false); every other entry and the version are what
\* they were; HasSymlink(m) is the found flag of GetSymlink(m) for every m; and
\* IsEmpty holds exactly when no name is present.
C34_FrameOfMutations ==
    /\ DocCall("add") =>
         /\ GetSymlink(mem.last.after, mem.last.name) =
              [target |-> mem.last.target, ok |-> TRUE]
         /\ OthersUntouched
    /\ DocCall("remove") =>
         /\ ~HasSymlink(mem.last.after, mem.last.name)
         /\ GetSymlink(mem.last.after, mem.last.name) = [target |-> "", ok |-> FALSE]
         /\ OthersUntouched
    /\ \A m \in DocNames : HasSymlink(mem.doc, m) = GetSymlink(mem.doc, m).ok
    /\ IsEmpty(mem.doc) = (\A m \in DocNames : ~HasSymlink(mem.doc, m))

\* One of several entries was removed, the others are still there.
C34_Witness ==
    /\ DocCall("remove")
    /\ HasSymlink(mem.last.before, mem.last.name)
    /\ ~IsEmpty(mem.last.after)
    /\ mem.prev.op = "add"

\* The saves of a call that changed the backing object.
Effective(w) == {i \in Steps(w, "save") : log[w][i].is # log[w][i].was}

\* C35: a call makes at most one backend mutation that takes effect, and that
\* one is its last backend operation; a call that returns an error has not
\* changed the backing object at any point.
C35_OneEffectiveMutation ==
    \A w \in Writers :
        /\ Cardinality(Effective(w)) <= 1
        /\ \A i \in Effective(w) : i = Len(log[w]) /\ Succeeded(w)
        /\ \A i \in Steps(w, "reload") \cup Steps(w, "merge") \cup Steps(w, "sleep") :
             log[w][i].is = log[w][i].was
        /\ (pc[w] = "done" /\ result[w].err # NoError) => Effective(w) = {}

\* A call has changed the object with its last save, after a conflict.
C35_Witness ==
    \E w \in Writers :
        /\ Succeeded(w)
        /\ SaveCount(w) > 1
        /\ Effective(w) = {Len(log[w])}

\* The saves a call made after a merge that succeeded with a non-empty
\* document.
MergedSaves(w) ==
    {i \in Steps(w, "save") : i > 1 /\ log[w][i].err = ErrNil /\ ~log[w][i].empty}

\* C36: when a save made after a merge succeeds with a non-empty document, the
\* version it replaces is the one the merge function was given, token and
\* content, or there was none in both cases; the document now stored is the
\* merge function applied to the state stored just before, whatever other
\* writers did between the reload and the put.
C36_SaveReplacesMergedVersion ==
    \A w \in Writers : \A i \in MergedSaves(w) :
        LET save == log[w][i]
            merge == log[w][i - 1]
            reload == log[w][i - 2]
            before == IF save.prior.exists THEN ParseSymlinksFile(save.prior.data).data
                      ELSE NewSymlinksFileData
        IN  /\ merge.ev = "merge" /\ reload.ev = "reload"
            /\ save.prior.exists = (reload.tok # 0)
            /\ save.prior.etag = reload.tok
            /\ merge.in = before
            /\ save.post = [exists |-> TRUE, data |-> Serialize(merge.doc), etag |-> save.is]
            /\ \E t \in Times : merge.doc = mergeFn(mergeKind[w], change[w], before, t).data

\* A writer has succeeded at its third save: the object changed between its
\* first reload and its second put.
C36_Witness ==
    \E w \in Writers :
        /\ Succeeded(w)
        /\ SaveCount(w) = 3
        /\ Len(log[w]) \in MergedSaves(w)
        /\ log[w][Len(log[w])].prior.exists

\* The writers of J, and nobody else, have each run one call that adds a name
\* of its own, each holding the token the object had at the start, each with a
\* budget of at least one retry per other writer and a merge function that
\* adds its name to the reloaded document; the backend fails only with
\* conflicts; all the calls have returned.
C37_Case(J) ==
    /\ J # {}
    /\ backend = "mock"
    /\ \A w \in J :
         /\ pc[w] = "done"
         /\ change[w].kind = "add"
         /\ mergeKind[w] = "reapply"
         /\ expectedETag[w] = initObj.etag
         /\ maxRetries[w] >= Cardinality(J) - 1
    /\ \A v, w \in J : v # w => change[v].name # change[w].name
    /\ \A v \in Writers \ J : ~Joined(v)

\* C37: N writers that hold the current token each add a name of their own,
\* with a budget of at least N-1 and a merge function that adds the name to
\* the reloaded document, against a backend that fails only with conflicts:
\* in every interleaving no call ends with RetriesExceeded, and the object ends
\* with all N names.
C37_AllWritersGetThrough ==
    \A J \in SUBSET Writers :
        C37_Case(J) =>
            \A w \in J :
                /\ Succeeded(w)
                /\ StoredWith(change[w].name, change[w].target)

\* Every writer has added its name with a budget of exactly one retry per
\* other writer, and one of them has used its whole budget.
C37_Witness ==
    /\ C37_Case(Writers)
    /\ \A w \in Writers : maxRetries[w] = NumWriters - 1
    /\ \E w \in Writers : MergeCount(w) = NumWriters - 1
    /\ \A w \in Writers : Stored(change[w].name)

\* The writers that have called so far all started with the token the object
\* had at the start, none of their saves was of an empty document, and the
\* backend fails only with conflicts.
C38_Case ==
    /\ backend = "mock"
    /\ \E w \in Writers : Joined(w)
    /\ \A w \in Writers :
         Joined(w) =>
            /\ expectedETag[w] = initObj.etag
            /\ ~IsEmpty(currentData[w])
            /\ \A i \in Steps(w, "save") : ~log[w][i].empty

\* The saves of a call that the backend refused for their precondition.
Conflicts(w) == {i \in Steps(w, "save") : log[w][i].answer = ErrPreconditionFailed}

\* C38: when several writers run SaveSymlinksFileWithRetry with non-empty
\* documents, all from the object's current token, against a backend that
\* fails only with conflicts, then for every budget and every interleaving at
\* least one call returns success, and a writer meets a conflict only after
\* another writer's mutation has taken effect since it read its token.
C38_SomeoneSucceeds ==
    C38_Case =>
        /\ Quiet => \E w \in Writers : Succeeded(w)
        /\ \A w \in Writers : \A i \in Conflicts(w) :
             \E v \in Writers \ {w} : \E j \in Effective(v) :
                 /\ log[v][j].is = log[w][i].was
                 /\ log[v][j].is > LastRead(w, i)

\* With no retry allowed, one writer has succeeded and every other one has met
\* the conflict its put caused.
C38_Witness ==
    /\ C38_Case
    /\ Quiet
    /\ \A w \in Writers : Joined(w) /\ maxRetries[w] = 0
    /\ Cardinality({w \in Writers : Succeeded(w)}) = 1
    /\ \A w \in Writers : ~Succeeded(w) => Conflicts(w) = {1}
====
